---- MODULE Spec2Model ----
(***************************************************************************)
(* A model of evaluation/inference_clasp.py: the decode loop clasp_forward *)
(* (prefill, periodic skip-mask optimisation, autoregressive drafting,     *)
(* prompt-lookup extension, parallel verification, sequential acceptance,  *)
(* commit of the sequence and of the canonical cache length).              *)
(*                                                                         *)
(* Tokens are small integers.  The full model is a next-token function F   *)
(* of the context it attends to (the materialised cache prefix followed by *)
(* the input ids of the call).  F is not fixed: fullModel holds the part   *)
(* of F that greedy selection has revealed so far, and a context that has  *)
(* not been asked before may answer with any token, so the model ranges    *)
(* over every F.  The draft model (the same network with layers skipped)   *)
(* answers with any token and any top-1 probability.                       *)
(***************************************************************************)
EXTENDS Integers, Sequences, FiniteSets, TLC

\* ---------------------------------------------------------------- bounds
NumTok == 3
MaxK == 1
MaxLayers == 3
MaxSteps == 2
MaxNewTokens == 5
MaxPosEmb == 6

\* ------------------------------------------------------ program constants
eos_token_id == 0
max_ngram_size == 3
PldCap == 10
BudgetMargin == 2
L == 2
DefaultDET == 70
DefaultSkipPct == 50

Tok == 0 .. (NumTok - 1)
NoToken == -1
\* top-1 probabilities of the draft distribution, in percent
Probs == {50, 90}

VARIABLES
    inputs,                   \* the prompt (inputs.input_ids[0])
    num_hidden_layers,        \* model.config.num_hidden_layers
    max_position_embeddings,  \* model.config.max_position_embeddings
    hidden_states_may_be_missing, \* TRUE when a forward pass may return no hidden states
    max_new_tokens_arg,       \* the max_new_tokens argument of every clasp_forward call
    num_sessions,             \* how many clasp_forward calls the process makes
    args,                     \* draft_length_K, draft_exit_threshold, hc, opt_interval, skip_ratio
    logits_processor,         \* TRUE when a logits processor is configured (sampling)
    max_steps,
    max_new_tokens,           \* the argument, then the effective value (line 110)
    pc,
    input_ids_list,           \* input_ids_list[0], the committed sequence
    generated_token_count,
    total_steps,
    accept_length_list,
    past_key_values_data,     \* canonical cache: the token each slot was computed from
    current_length_data,      \* canonical cache: logical length
    last_token_hidden_states, \* TRUE when an anchor is available, FALSE when None
    current_draft_skip_mask,  \* module global
    steps_since_last_optim,   \* module global
    draft_tokens,
    draft_step_idx,
    continue_hc,
    draft_exit,               \* how the draft loop ended
    top1_prob,                \* top-1 probability of the last draft distribution (percent)
    pld_called,               \* TRUE when the lookahead extension ran this step
    num_pld,                  \* tokens appended by the lookahead extension this step
    current_seq_len,
    verify_input_ids,
    k,
    accepted_len,
    verify_tokens,            \* verify_token_k of the rows compared so far
    verify_rows,              \* the row (0-based) each of them was selected from
    final_next_token,
    failure,                  \* exception that left clasp_forward, or "none"
    desync_warning,           \* TRUE once the warning of lines 291-294 was logged
    fullModel,                \* revealed part of F: context -> token
    seq_before_step,          \* the committed sequence when the step began
    opt_past_key_values_data, \* optimisation fork: storage
    opt_current_length_data,  \* optimisation fork: logical length
    draft_past_key_values_data, \* draft fork: storage
    draft_current_length_data,  \* draft fork: logical length
    session,                  \* number of the clasp_forward call in progress
    first_output,             \* what the first clasp_forward call returned
    draftModel,               \* revealed part of the draft function: <<mask, context>> -> token, probability
    optModel,                 \* revealed part of the optimiser: committed sequence -> mask
    mask_session,             \* the call in which the current mask was computed (0: none)
    last_optim_mask,          \* the mask the last optimisation call returned
    draft_mask,               \* the mask the last draft forward ran under
    tokens_since_last_optim,  \* tokens committed since the last optimisation call
    step_had_anchor,          \* last_token_hidden_states when the step began
    canonical_snapshot        \* canonical storage and length when the step began, then
                              \* as the verify pass left them

cfgVars == <<inputs, args, logits_processor, max_steps, num_hidden_layers,
             max_position_embeddings, hidden_states_may_be_missing,
             max_new_tokens_arg, num_sessions>>
loopVars == <<input_ids_list, generated_token_count, total_steps, accept_length_list>>
cacheVars == <<past_key_values_data, current_length_data>>
globalVars == <<current_draft_skip_mask, steps_since_last_optim>>
draftVars == <<draft_tokens, draft_step_idx, continue_hc, draft_exit, top1_prob,
               pld_called, num_pld>>
verifyVars == <<current_seq_len, verify_input_ids>>
acceptVars == <<k, accepted_len, verify_tokens, verify_rows, final_next_token>>
forkVars == <<opt_past_key_values_data, opt_current_length_data,
              draft_past_key_values_data, draft_current_length_data>>
sessVars == <<session, first_output, draftModel, optModel>>
ghostVars == <<mask_session, last_optim_mask, draft_mask, tokens_since_last_optim,
               step_had_anchor, canonical_snapshot>>

vars == <<inputs, args, logits_processor, max_steps, num_hidden_layers,
          max_position_embeddings, hidden_states_may_be_missing,
          max_new_tokens_arg, num_sessions, max_new_tokens, pc,
          input_ids_list, generated_token_count, total_steps, accept_length_list,
          past_key_values_data, current_length_data, last_token_hidden_states,
          current_draft_skip_mask, steps_since_last_optim,
          draft_tokens, draft_step_idx, continue_hc, draft_exit, top1_prob,
          pld_called, num_pld,
          current_seq_len, verify_input_ids,
          k, accepted_len, verify_tokens, verify_rows, final_next_token,
          failure, desync_warning, fullModel, seq_before_step,
          opt_past_key_values_data, opt_current_length_data,
          draft_past_key_values_data, draft_current_length_data,
          session, first_output, draftModel, optModel,
          mask_session, last_optim_mask, draft_mask, tokens_since_last_optim,
          step_had_anchor, canonical_snapshot>>

\* ------------------------------------------------------------- helpers
Min(a, b) == IF a < b THEN a ELSE b

IsPrefix(s, t) == Len(s) <= Len(t) /\ SubSeq(t, 1, Len(s)) = s

\* Python's list[:n] for n >= 0
Take(s, n) == SubSeq(s, 1, Min(n, Len(s)))

\* Python's list[-n:] for n >= 1
LastN(s, n) == SubSeq(s, Len(s) - Min(n, Len(s)) + 1, Len(s))

Elems(s) == {s[i] : i \in 1 .. Len(s)}

NoMask == [isNone |-> TRUE, skipped |-> {}]

\* the prompts a session is run on
Prompts == {<<1>>, <<1, 1>>}

\* lines 119 and 347/372: whether a forward pass asked for hidden states
\* returned some (lines 616-619 configure the model to return them)
HiddenStatesReturned == IF hidden_states_may_be_missing THEN BOOLEAN ELSE {TRUE}

\* --------------------------------------------------- configuration space
\* draft_exit_threshold is the default 0.7 (in percent): with the top-1
\* probabilities of Probs both outcomes of the confidence test occur
KChoices == 0 .. MaxK
DETChoices == {DefaultDET}
IntervalChoices == {1, 2}
MaxNewChoices == {3, MaxNewTokens}
StepChoices == 1 .. MaxSteps

ArgsSpace ==
    [draft_length_K : KChoices, draft_exit_threshold : DETChoices, hc : BOOLEAN,
     opt_interval : IntervalChoices, skip_ratio : {DefaultSkipPct}]

\* ------------------------------------------------------- pure functions
\* Python's int() of the non-negative quotient num / den: truncation
PyInt(num, den) == num \div den

\* Python's round() of the non-negative quotient num / den: to the nearest
\* integer, a tie to the even neighbour
PyRound(num, den) ==
    LET q == num \div den
        r == num % den
    IN IF 2 * r < den THEN q
       ELSE IF 2 * r > den THEN q + 1
       ELSE IF q % 2 = 0 THEN q ELSE q + 1

\* line 63: M = int(L * args.skip_ratio), skip_ratio in percent
M(a) == PyInt(num_hidden_layers * a.skip_ratio, 100)

\* lines 104-110: the effective max_new_tokens
EffectiveMaxNew(mnt, input_len) ==
    IF mnt > max_position_embeddings - input_len
    THEN max_position_embeddings - input_len - 1
    ELSE mnt

Layers == 1 .. num_hidden_layers

\* the masks the optimiser may return: exactly m of the layers skipped
Masks(m) == {[isNone |-> FALSE, skipped |-> s] : s \in {x \in SUBSET Layers : Cardinality(x) = m}}

\* Python's index normalisation of a (possibly negative) index into n rows
PyIndex(i, n) == IF i < 0 THEN n + i ELSE i

\* line 327: the verification row compared with draft token kk (0-based)
VerifyRowIndexOffByOne(kk, n) == kk - n
VerifyRowIndex(kk, n) == kk - n - 1

\* line 360: the row the bonus token is selected from
BonusRowIndex(rows) == -1

\* a forward call writes the entries of its input ids from the logical length
\* on; slots beyond what it writes keep what they held
WriteCache(data, cur, ids) ==
    [i \in 1 .. (IF Len(data) > cur + Len(ids) THEN Len(data) ELSE cur + Len(ids)) |->
        IF i <= cur THEN data[i]
        ELSE IF i <= cur + Len(ids) THEN ids[i - cur]
        ELSE data[i]]

CacheLenAfter(cur, ids) == cur + Len(ids)

\* what the full model attends to when it produces row r (0-based) of a
\* forward call whose input ids were written to the cache at slot base+1 on
VerifyContext(data, base, r) == SubSeq(data, 1, base + r + 1)

\* the prompt-lookup extension: the tokens that follow the most recent
\* earlier occurrence of the final n-gram, longest n first
MatchStarts(all, n) ==
    {i \in 1 .. (Len(all) - n) : SubSeq(all, i, i + n - 1) = LastN(all, n)}

MaxOf(S) == CHOOSE x \in S : \A y \in S : y <= x

RECURSIVE PldFrom(_, _, _)
PldFrom(all, n, num) ==
    IF n < 1 \/ num < 1 THEN <<>>
    ELSE IF n <= Len(all) /\ MatchStarts(all, n) # {}
         THEN LET i == MaxOf(MatchStarts(all, n))
              IN SubSeq(all, i + n, Min(i + n + num - 1, Len(all)))
         ELSE PldFrom(all, n - 1, num)

find_candidate_pred_tokens(all, ngram, num) == PldFrom(all, ngram, num)

\* F restricted to what is still askable: contexts on the committed
\* sequence's path (a rejected branch can never be asked again, since
\* the sequence only grows by appending)
OnPath(fm, seq) ==
    [c \in {d \in DOMAIN fm : IsPrefix(d, seq) \/ IsPrefix(seq, d)} |-> fm[c]]

Extend(fm, ctx, t) == [c \in DOMAIN fm \cup {ctx} |-> IF c = ctx THEN t ELSE fm[c]]

\* token t is what the full model selects in context ctx: arg-max of F in
\* greedy mode, a multinomial draw (any token) when a logits processor is set
Selects(ctx, t) ==
    logits_processor \/ (ctx \in DOMAIN fullModel => t = fullModel[ctx])

Revealed(ctx, t) ==
    IF logits_processor THEN fullModel ELSE Extend(fullModel, ctx, t)

\* line 92: the token sample() returns for the last prefill position
sample(ctx, t) == Selects(ctx, t)

\* a later clasp_forward call of the process may ask the draft function or
\* the optimiser again; within one call no question is asked twice (every
\* draft context and every step's sequence is longer than, or differs from,
\* the ones before), so only then are the answers kept
Recording == session < num_sessions

\* lines 170-177: the optimiser is a deterministic function of the anchor and
\* the cache content, which the committed sequence determines; it returns a
\* mask with exactly m layers skipped
OptimizerReturns(seq, m, mask) ==
    /\ mask \in Masks(m)
    /\ seq \in DOMAIN optModel => mask = optModel[seq]

OptimizerRevealed(seq, mask) ==
    IF Recording THEN Extend(optModel, seq, mask) ELSE optModel

\* the mask skips no layer: the draft forward is the full forward
NoLayerSkipped(mask) == ~mask.isNone /\ mask.skipped = {}

\* lines 218-244: under a mask the model is a deterministic function of the
\* context; arg-max selection makes the drafted token and its top-1
\* probability functions of mask and context, and with no layer skipped the
\* drafted token is the full model's selection
DraftSelects(mask, ctx, t, prob) ==
    logits_processor \/
        /\ <<mask, ctx>> \in DOMAIN draftModel =>
              draftModel[<<mask, ctx>>] = [token |-> t, top1 |-> prob]
        /\ NoLayerSkipped(mask) => Selects(ctx, t)

DraftRevealed(mask, ctx, t, prob) ==
    IF Recording /\ ~logits_processor
    THEN Extend(draftModel, <<mask, ctx>>, [token |-> t, top1 |-> prob])
    ELSE draftModel

FullRevealedByDraft(mask, ctx, t) ==
    IF ~logits_processor /\ NoLayerSkipped(mask) THEN Revealed(ctx, t) ELSE fullModel

\* ------------------------------------------------------------------ Init
\* lines 53-79 and 647-649: the state when the first clasp_forward call
\* begins, for every configuration but the process-wide settings
SessionStart ==
    /\ max_new_tokens = max_new_tokens_arg
    /\ pc = "prefill"
    /\ input_ids_list = inputs
    /\ generated_token_count = 0
    /\ total_steps = 0
    /\ accept_length_list = <<>>
    /\ past_key_values_data = <<>>
    /\ current_length_data = 0
    /\ last_token_hidden_states = FALSE
    /\ current_draft_skip_mask = NoMask
    /\ steps_since_last_optim = 0
    /\ draft_tokens = <<>>
    /\ draft_step_idx = 0
    /\ continue_hc = TRUE
    /\ draft_exit = "none"
    /\ pld_called = FALSE
    /\ num_pld = 0
    /\ current_seq_len = 0
    /\ verify_input_ids = <<>>
    /\ k = 0
    /\ accepted_len = 0
    /\ verify_tokens = <<>>
    /\ verify_rows = <<>>
    /\ final_next_token = NoToken
    /\ failure = "none"
    /\ desync_warning = FALSE
    /\ fullModel = [c \in {} |-> NoToken]
    /\ seq_before_step = inputs
    /\ top1_prob = 0
    /\ opt_past_key_values_data = <<>>
    /\ opt_current_length_data = 0
    /\ draft_past_key_values_data = <<>>
    /\ draft_current_length_data = 0
    /\ session = 1
    /\ first_output = <<>>
    /\ draftModel = [c \in {} |-> NoToken]
    /\ optModel = [c \in {} |-> NoMask]
    /\ mask_session = 0
    /\ last_optim_mask = NoMask
    /\ draft_mask = NoMask
    /\ tokens_since_last_optim = 0
    /\ step_had_anchor = FALSE
    /\ canonical_snapshot = <<<<>>, 0>>

\* one clasp_forward call on the default model configuration
Init ==
    /\ inputs \in Prompts
    /\ args \in ArgsSpace
    /\ logits_processor \in BOOLEAN
    /\ max_steps \in StepChoices
    /\ max_new_tokens_arg \in MaxNewChoices
    /\ num_hidden_layers = L
    /\ max_position_embeddings = MaxPosEmb
    /\ hidden_states_may_be_missing = FALSE
    /\ num_sessions = 1
    /\ SessionStart

\* --------------------------------------------------------------- actions
\* lines 53-124: prefill forward, first token, budget clamp, first anchor
Prefill ==
    /\ pc = "prefill"
    /\ \E t \in Tok :
          /\ sample(inputs, t)
          /\ input_ids_list' = inputs \o <<t>>
          /\ fullModel' = Revealed(inputs, t)
    /\ past_key_values_data' = WriteCache(past_key_values_data, current_length_data, inputs)
    /\ current_length_data' = CacheLenAfter(current_length_data, inputs)
    /\ generated_token_count' = generated_token_count + 1
    /\ max_new_tokens' = EffectiveMaxNew(max_new_tokens, Len(inputs))
    /\ last_token_hidden_states' \in HiddenStatesReturned
    /\ pc' = "loop"
    /\ UNCHANGED <<cfgVars, forkVars, sessVars, ghostVars, total_steps, accept_length_list, globalVars, draftVars,
                   verifyVars, acceptVars, failure, desync_warning, seq_before_step>>

\* line 143: the while condition
LoopConditionStepsOnly == total_steps < max_steps
LoopCondition ==
    generated_token_count < max_new_tokens /\ total_steps < max_steps

\* line 143: the loop test succeeds and a step begins (line 144)
StepBegin ==
    /\ pc = "loop"
    /\ LoopCondition
    /\ total_steps' = total_steps + 1
    /\ seq_before_step' = input_ids_list
    /\ pc' = "optim"
    \* the step's locals of the previous iteration are dead
    /\ draft_tokens' = <<>>
    /\ draft_step_idx' = 0
    /\ continue_hc' = TRUE
    /\ draft_exit' = "none"
    /\ top1_prob' = 0
    /\ pld_called' = FALSE
    /\ num_pld' = 0
    /\ opt_past_key_values_data' = <<>>
    /\ opt_current_length_data' = 0
    /\ draft_past_key_values_data' = <<>>
    /\ draft_current_length_data' = 0
    /\ draft_mask' = NoMask
    /\ step_had_anchor' = last_token_hidden_states
    /\ canonical_snapshot' = <<past_key_values_data, current_length_data>>
    /\ current_seq_len' = 0
    /\ verify_input_ids' = <<>>
    /\ k' = 0
    /\ accepted_len' = 0
    /\ verify_tokens' = <<>>
    /\ verify_rows' = <<>>
    /\ final_next_token' = NoToken
    /\ UNCHANGED <<cfgVars, sessVars, mask_session, last_optim_mask,
                   tokens_since_last_optim, max_new_tokens, input_ids_list,
                   generated_token_count, accept_length_list, cacheVars,
                   last_token_hidden_states, globalVars, failure, desync_warning,
                   fullModel>>

\* line 143: the loop test fails; lines 429-451 return
LoopExit ==
    /\ pc = "loop"
    /\ ~LoopCondition
    /\ pc' = "done"
    /\ UNCHANGED <<cfgVars, forkVars, sessVars, ghostVars, max_new_tokens, loopVars, cacheVars,
                   last_token_hidden_states, globalVars, draftVars, verifyVars,
                   acceptVars, failure, desync_warning, fullModel, seq_before_step>>

\* lines 151-154: whether the optimiser runs in this step
RunsOptimizer ==
    /\ last_token_hidden_states
    /\ \/ current_draft_skip_mask.isNone
       \/ steps_since_last_optim >= args.opt_interval

\* line 175: the cache the optimiser runs the layers on
OptPastKeyValues == "opt_kv_cache_list"

\* line 221: the cache the draft forward runs on (line 222 is the alternative
\* the source keeps as a comment)
DraftPastKeyValuesCanonical == "past_key_values"
DraftPastKeyValues == "draft_kv_cache_list"

\* the entries the optimiser's layer calls write: those of the last
\* committed token, the one the canonical cache has not materialised
OptimizerWrites == <<input_ids_list[Len(input_ids_list)]>>

\* lines 155-189: the optimisation fork is cloned, the optimiser runs on it
\* and returns a mask, the counter is reset; lines 196-212: the draft fork is
\* cloned from the canonical cache
Optimize ==
    /\ pc = "optim"
    /\ RunsOptimizer
    /\ \E mask \in Masks(M(args)) :
          /\ OptimizerReturns(input_ids_list, M(args), mask)
          /\ current_draft_skip_mask' = mask
          /\ last_optim_mask' = mask
          /\ optModel' = OptimizerRevealed(input_ids_list, mask)
    /\ steps_since_last_optim' = 0
    /\ tokens_since_last_optim' = 0
    /\ mask_session' = session
    /\ IF OptPastKeyValues = "opt_kv_cache_list"
       THEN /\ opt_past_key_values_data' =
                  WriteCache(past_key_values_data, current_length_data, OptimizerWrites)
            /\ opt_current_length_data' =
                  CacheLenAfter(current_length_data, OptimizerWrites)
            /\ UNCHANGED cacheVars
       ELSE /\ opt_past_key_values_data' = past_key_values_data
            /\ opt_current_length_data' = current_length_data
            /\ past_key_values_data' =
                  WriteCache(past_key_values_data, current_length_data, OptimizerWrites)
            /\ current_length_data' =
                  CacheLenAfter(current_length_data, OptimizerWrites)
    /\ draft_past_key_values_data' = past_key_values_data'
    /\ draft_current_length_data' = current_length_data'
    /\ pc' = "draft"
    /\ UNCHANGED <<cfgVars, session, first_output, draftModel, draft_mask,
                   step_had_anchor, canonical_snapshot, max_new_tokens, loopVars,
                   last_token_hidden_states, draftVars, verifyVars, acceptVars,
                   failure, desync_warning, fullModel, seq_before_step>>

\* lines 151-154 false: the mask and the counter are kept; lines 196-212:
\* the draft fork is cloned from the canonical cache
NoOptimize ==
    /\ pc = "optim"
    /\ ~RunsOptimizer
    /\ draft_past_key_values_data' = past_key_values_data
    /\ draft_current_length_data' = current_length_data
    /\ pc' = "draft"
    /\ UNCHANGED <<cfgVars, opt_past_key_values_data, opt_current_length_data,
                   sessVars, ghostVars, max_new_tokens, loopVars, cacheVars,
                   last_token_hidden_states, globalVars, draftVars, verifyVars,
                   acceptVars, failure, desync_warning, fullModel, seq_before_step>>

\* lines 246-255: the exit taken after a draft token, in the code's order
DraftExitEosFirst(prob, next_token, drafted) ==
    IF next_token = eos_token_id THEN "eos"
    ELSE IF prob < args.draft_exit_threshold /\ drafted > 0 THEN "confidence"
    ELSE IF drafted + generated_token_count >= max_new_tokens - BudgetMargin THEN "budget"
    ELSE "none"
DraftExit(prob, next_token, drafted) ==
    IF prob < args.draft_exit_threshold /\ drafted > 0 THEN "confidence"
    ELSE IF next_token = eos_token_id THEN "eos"
    ELSE IF drafted + generated_token_count >= max_new_tokens - BudgetMargin THEN "budget"
    ELSE "none"

\* lines 249-255: only the EOS and the budget exit clear continue_hc
ContinueHCAlways(exit) == TRUE
ContinueHC(exit) == exit \notin {"eos", "budget"}

\* line 218: the mask the draft forward runs under
dynamic_skip_mask_none == NoMask
dynamic_skip_mask == current_draft_skip_mask

\* lines 211 and 245: the input id of the next draft forward
next_draft_input_ids_first == input_ids_list[Len(input_ids_list)]
next_draft_input_ids ==
    IF draft_tokens = <<>> THEN input_ids_list[Len(input_ids_list)]
    ELSE draft_tokens[Len(draft_tokens)]

\* lines 214-255: one iteration of the draft loop: a forward pass under the
\* mask on the draft cache, which writes its input id there, the selection of
\* the next token and the exit tests
DraftForward ==
    /\ pc = "draft"
    /\ draft_step_idx < args.draft_length_K
    /\ LET onFork == DraftPastKeyValues = "draft_kv_cache_list"
           data == IF onFork THEN draft_past_key_values_data ELSE past_key_values_data
           cur == IF onFork THEN draft_current_length_data ELSE current_length_data
           written == WriteCache(data, cur, <<next_draft_input_ids>>)
           ctx == VerifyContext(written, cur, 0)
       IN /\ IF onFork
             THEN /\ draft_past_key_values_data' = written
                  /\ draft_current_length_data' =
                        CacheLenAfter(cur, <<next_draft_input_ids>>)
                  /\ UNCHANGED cacheVars
             ELSE /\ past_key_values_data' = written
                  /\ current_length_data' =
                        CacheLenAfter(cur, <<next_draft_input_ids>>)
                  /\ UNCHANGED <<draft_past_key_values_data, draft_current_length_data>>
          /\ \E next_token \in Tok, prob \in Probs :
                LET drafted == draft_tokens \o <<next_token>>
                    exit == DraftExit(prob, next_token, Len(drafted))
                IN /\ DraftSelects(dynamic_skip_mask, ctx, next_token, prob)
                   /\ draftModel' = DraftRevealed(dynamic_skip_mask, ctx, next_token, prob)
                   /\ fullModel' = FullRevealedByDraft(dynamic_skip_mask, ctx, next_token)
                   /\ draft_tokens' = drafted
                   /\ top1_prob' = prob
                   /\ draft_exit' = exit
                   /\ continue_hc' = (continue_hc /\ ContinueHC(exit))
                   /\ pc' = IF exit = "none" THEN "draft" ELSE "pld"
    /\ draft_mask' = dynamic_skip_mask
    /\ draft_step_idx' = draft_step_idx + 1
    /\ UNCHANGED <<cfgVars, opt_past_key_values_data, opt_current_length_data,
                   session, first_output, optModel, mask_session, last_optim_mask,
                   tokens_since_last_optim, step_had_anchor, canonical_snapshot,
                   max_new_tokens,
                   loopVars, last_token_hidden_states, globalVars, pld_called,
                   num_pld, verifyVars, acceptVars, failure, desync_warning,
                   seq_before_step>>

\* line 214: range(K) is exhausted (at once when K = 0)
DraftLoopEnd ==
    /\ pc = "draft"
    /\ draft_step_idx >= args.draft_length_K
    /\ draft_exit' = "natural"
    /\ pc' = "pld"
    /\ UNCHANGED <<cfgVars, forkVars, sessVars, ghostVars, max_new_tokens, loopVars, cacheVars,
                   last_token_hidden_states, globalVars, draft_tokens,
                   draft_step_idx, continue_hc, top1_prob, pld_called, num_pld,
                   verifyVars, acceptVars,
                   failure, desync_warning, fullModel, seq_before_step>>

\* lines 257-267: the prompt-lookup extension
Lookahead ==
    /\ pc = "pld"
    /\ args.hc /\ continue_hc
    /\ LET all_ids == input_ids_list \o draft_tokens
           max_new_draft == max_new_tokens - Len(draft_tokens)
                              - generated_token_count - BudgetMargin
           pld_candidate_tokens ==
               find_candidate_pred_tokens(all_ids, max_ngram_size,
                                          Min(PldCap, max_new_draft))
       IN /\ draft_tokens' = draft_tokens \o pld_candidate_tokens
          /\ num_pld' = Len(pld_candidate_tokens)
    /\ pld_called' = TRUE
    /\ top1_prob' = 0
    /\ pc' = "verify"
    /\ UNCHANGED <<cfgVars, forkVars, sessVars, ghostVars, max_new_tokens, loopVars,
                   cacheVars, last_token_hidden_states, globalVars, draft_step_idx,
                   continue_hc, draft_exit, verifyVars, acceptVars, failure,
                   desync_warning, fullModel, seq_before_step>>

\* line 257 false
NoLookahead ==
    /\ pc = "pld"
    /\ ~(args.hc /\ continue_hc)
    /\ top1_prob' = 0
    /\ pc' = "verify"
    /\ UNCHANGED <<cfgVars, forkVars, sessVars, ghostVars, max_new_tokens, loopVars,
                   cacheVars, last_token_hidden_states, globalVars, draft_tokens,
                   draft_step_idx, continue_hc, draft_exit, pld_called, num_pld,
                   verifyVars, acceptVars, failure, desync_warning, fullModel,
                   seq_before_step>>

num_drafted == Len(draft_tokens)

\* verify_logits.shape[1]: one row per input id of the verify pass
NumRows == Len(verify_input_ids)

\* lines 208-210: the last committed token, the first input id of the draft
\* loop and of the verify pass
first_draft_input_ids_previous == input_ids_list[Len(input_ids_list) - 1]
first_draft_input_ids == input_ids_list[Len(input_ids_list)]

\* lines 275-308: the verify pass over [last committed token] + draft batch,
\* which writes its input ids to the canonical cache from the logical length on
Verify ==
    /\ pc = "verify"
    /\ current_seq_len' = current_length_data
    /\ desync_warning' =
          (desync_warning \/ current_length_data # Len(input_ids_list) - 1)
    /\ LET vin == IF num_drafted > 0
                  THEN <<first_draft_input_ids>> \o draft_tokens
                  ELSE <<first_draft_input_ids>>
       IN /\ verify_input_ids' = vin
          /\ past_key_values_data' =
                WriteCache(past_key_values_data, current_length_data, vin)
          /\ current_length_data' = CacheLenAfter(current_length_data, vin)
    /\ canonical_snapshot' = <<past_key_values_data', current_length_data'>>
    \* the forks are not read after the draft phase
    /\ opt_past_key_values_data' = <<>>
    /\ opt_current_length_data' = 0
    /\ draft_past_key_values_data' = <<>>
    /\ draft_current_length_data' = 0
    /\ pc' = IF num_drafted > 0 THEN "accept" ELSE "accepted"
    /\ UNCHANGED <<cfgVars, sessVars, mask_session, last_optim_mask, draft_mask,
                   tokens_since_last_optim, step_had_anchor, max_new_tokens,
                   loopVars,
                   last_token_hidden_states, globalVars, draftVars, acceptVars,
                   failure, fullModel, seq_before_step>>

\* lines 326-356: one iteration of the acceptance loop
AcceptStep ==
    /\ pc = "accept"
    /\ k < num_drafted
    /\ LET row == PyIndex(VerifyRowIndex(k, num_drafted), NumRows)
           ctx == VerifyContext(past_key_values_data, current_seq_len, row)
       IN /\ row \in 0 .. (NumRows - 1)
          /\ \E verify_token_k \in Tok :
                /\ Selects(ctx, verify_token_k)
                /\ fullModel' = Revealed(ctx, verify_token_k)
                /\ verify_tokens' = Append(verify_tokens, verify_token_k)
                /\ verify_rows' = Append(verify_rows, row)
                /\ IF draft_tokens[k + 1] = verify_token_k
                   THEN /\ accepted_len' = accepted_len + 1
                        /\ k' = k + 1
                        /\ final_next_token' = final_next_token
                        /\ pc' = IF k + 1 < num_drafted THEN "accept" ELSE "accepted"
                   ELSE /\ final_next_token' = verify_token_k
                        /\ UNCHANGED <<accepted_len, k>>
                        /\ pc' = "accepted"
    /\ UNCHANGED <<cfgVars, forkVars, sessVars, ghostVars, max_new_tokens, loopVars, cacheVars,
                   last_token_hidden_states, globalVars, draftVars, verifyVars,
                   failure, desync_warning, seq_before_step>>

\* lines 358-380 in greedy mode: the bonus token from the last row
BonusToken ==
    /\ pc = "accepted"
    /\ accepted_len = num_drafted
    /\ ~logits_processor
    /\ LET row == PyIndex(BonusRowIndex(NumRows), NumRows)
           ctx == VerifyContext(past_key_values_data, current_seq_len, row)
       IN \E t \in Tok :
             /\ Selects(ctx, t)
             /\ fullModel' = Revealed(ctx, t)
             /\ final_next_token' = t
             /\ verify_rows' = Append(verify_rows, row)
    /\ pc' = "commit"
    /\ UNCHANGED <<cfgVars, forkVars, sessVars, ghostVars, max_new_tokens, loopVars, cacheVars,
                   last_token_hidden_states, globalVars, draftVars, verifyVars,
                   k, accepted_len, verify_tokens, failure, desync_warning,
                   seq_before_step>>

\* lines 361-365 with a logits processor: draft_tokens[-1] of an empty batch
\* raises IndexError; otherwise input_ids_list + [draft_tokens[-1]] is the
\* ragged list [[...], tok], which torch.tensor rejects with ValueError
BonusRaises ==
    /\ pc = "accepted"
    /\ accepted_len = num_drafted
    /\ logits_processor
    /\ failure' = IF num_drafted = 0 THEN "IndexError" ELSE "ValueError"
    /\ pc' = "failed"
    /\ UNCHANGED <<cfgVars, forkVars, sessVars, ghostVars, max_new_tokens, loopVars, cacheVars,
                   last_token_hidden_states, globalVars, draftVars, verifyVars,
                   acceptVars, desync_warning, fullModel, seq_before_step>>

\* line 358 false: the loop stopped at a mismatch
NoBonus ==
    /\ pc = "accepted"
    /\ accepted_len # num_drafted
    /\ pc' = "commit"
    /\ UNCHANGED <<cfgVars, forkVars, sessVars, ghostVars, max_new_tokens, loopVars, cacheVars,
                   last_token_hidden_states, globalVars, draftVars, verifyVars,
                   acceptVars, failure, desync_warning, fullModel, seq_before_step>>

\* line 397: the canonical cache's logical length after the step
NewLenNoRollback(cur, acc, n) == cur + n + 1
NewLen(cur, acc, n) == cur + acc + 1

\* lines 386-388: the tokens the step appends
CommittedWholeDraft(dts, acc, final) == dts \o <<final>>
CommittedDraftAtMismatch(dts, acc, final) ==
    IF acc < Len(dts) THEN Take(dts, acc + 1) ELSE Take(dts, acc) \o <<final>>
Committed(dts, acc, final) == Take(dts, acc) \o <<final>>

\* line 400: the number of tokens the step commits
step_accept_len_without_final(acc) == acc
step_accept_len(acc) == acc + 1

\* line 423: the end-of-sequence test on the tokens committed this step
EosInStep(seq, n) == eos_token_id \in Elems(LastN(seq, n))

\* lines 384-427: commit the sequence and the cache length, count, test EOS
Commit ==
    /\ pc = "commit"
    /\ LET seq == input_ids_list \o Committed(draft_tokens, accepted_len, final_next_token)
       IN /\ input_ids_list' = seq
          /\ current_length_data' = NewLen(current_seq_len, accepted_len, num_drafted)
          /\ accept_length_list' =
                Append(accept_length_list, step_accept_len(accepted_len))
          /\ generated_token_count' =
                generated_token_count + step_accept_len(accepted_len)
          /\ steps_since_last_optim' = steps_since_last_optim + 1
          /\ tokens_since_last_optim' =
                tokens_since_last_optim + step_accept_len(accepted_len)
          /\ last_token_hidden_states' \in HiddenStatesReturned
          /\ fullModel' = OnPath(fullModel, seq)
          /\ pc' = IF EosInStep(seq, step_accept_len(accepted_len))
                   THEN "done" ELSE "loop"
    /\ UNCHANGED <<cfgVars, forkVars, sessVars, mask_session, last_optim_mask,
                   draft_mask, step_had_anchor, canonical_snapshot, max_new_tokens,
                   total_steps,
                   past_key_values_data, current_draft_skip_mask, draftVars,
                   verifyVars, acceptVars, failure, desync_warning, seq_before_step>>

\* lines 652-668: run_eval calls clasp_forward again on the same input;
\* lines 53-79 initialise the locals and a fresh canonical cache, while the
\* module globals of lines 52 and 647-649 keep what the previous call left
NewSession ==
    /\ pc = "done"
    /\ session < num_sessions
    /\ session' = session + 1
    /\ first_output' = IF session = 1 THEN input_ids_list ELSE first_output
    /\ max_new_tokens' = max_new_tokens_arg
    /\ pc' = "prefill"
    /\ input_ids_list' = inputs
    /\ generated_token_count' = 0
    /\ total_steps' = 0
    /\ accept_length_list' = <<>>
    /\ past_key_values_data' = <<>>
    /\ current_length_data' = 0
    /\ last_token_hidden_states' = FALSE
    /\ draft_tokens' = <<>>
    /\ draft_step_idx' = 0
    /\ continue_hc' = TRUE
    /\ draft_exit' = "none"
    /\ top1_prob' = 0
    /\ pld_called' = FALSE
    /\ num_pld' = 0
    /\ current_seq_len' = 0
    /\ verify_input_ids' = <<>>
    /\ k' = 0
    /\ accepted_len' = 0
    /\ verify_tokens' = <<>>
    /\ verify_rows' = <<>>
    /\ final_next_token' = NoToken
    /\ seq_before_step' = inputs
    /\ draft_mask' = NoMask
    /\ step_had_anchor' = FALSE
    /\ canonical_snapshot' = <<<<>>, 0>>
    /\ UNCHANGED <<cfgVars, forkVars, globalVars, draftModel, optModel, fullModel,
                   mask_session, last_optim_mask, tokens_since_last_optim,
                   failure, desync_warning>>

Next ==
    \/ Prefill
    \/ StepBegin
    \/ LoopExit
    \/ Optimize
    \/ NoOptimize
    \/ DraftForward
    \/ DraftLoopEnd
    \/ Lookahead
    \/ NoLookahead
    \/ Verify
    \/ AcceptStep
    \/ BonusToken
    \/ BonusRaises
    \/ NoBonus
    \/ Commit

Spec == Init /\ [][Next]_vars

\* ------------------------------------------- the layer count and the ratio
\* the first optimisation call of a session, for every layer count up to
\* MaxLayers and every skip ratio in steps of ten percent
SkipPctChoices == {10 * p : p \in 0 .. 10}

LayersInit ==
    /\ inputs = <<1>>
    /\ args \in [draft_length_K : {0}, draft_exit_threshold : DETChoices, hc : {FALSE},
                  opt_interval : {1}, skip_ratio : SkipPctChoices]
    /\ logits_processor = FALSE
    /\ max_steps = 1
    /\ max_new_tokens_arg = MaxNewTokens
    /\ num_hidden_layers \in 1 .. MaxLayers
    /\ max_position_embeddings = MaxPosEmb
    /\ hidden_states_may_be_missing = FALSE
    /\ num_sessions = 1
    /\ SessionStart

LayersNext ==
    \/ Prefill
    \/ StepBegin
    \/ Optimize

LayersSpec == LayersInit /\ [][LayersNext]_vars

\* --------------------------------------- two calls in the same process
\* greedy decoding, the same input and configuration for both calls
GreedyNext ==
    \/ Prefill
    \/ StepBegin
    \/ LoopExit
    \/ Optimize
    \/ NoOptimize
    \/ DraftForward
    \/ DraftLoopEnd
    \/ Lookahead
    \/ NoLookahead
    \/ Verify
    \/ AcceptStep
    \/ BonusToken
    \/ NoBonus
    \/ Commit

SessionsInit ==
    /\ inputs = <<1>>
    /\ args \in [draft_length_K : {MaxK}, draft_exit_threshold : DETChoices,
                  hc : BOOLEAN, opt_interval : {1, MaxSteps + 1},
                  skip_ratio : {DefaultSkipPct}]
    /\ logits_processor = FALSE
    /\ max_steps = MaxSteps
    /\ max_new_tokens_arg = MaxNewTokens
    /\ num_hidden_layers = L
    /\ max_position_embeddings = MaxPosEmb
    /\ hidden_states_may_be_missing = FALSE
    /\ num_sessions = 2
    /\ SessionStart

SessionsNext == GreedyNext \/ NewSession

SessionsSpec == SessionsInit /\ [][SessionsNext]_vars

\* ------------------------------------------------ the degenerate scenario
\* skip_ratio 0, draft_exit_threshold 0, draft_length_K 4, greedy selection;
\* the budget is the small one, and one that leaves room for four drafts
DegenerateInit ==
    /\ inputs = <<1>>
    /\ args \in [draft_length_K : {4}, draft_exit_threshold : {0}, hc : BOOLEAN,
                  opt_interval : IntervalChoices, skip_ratio : {0}]
    /\ logits_processor = FALSE
    /\ max_steps = MaxSteps
    /\ max_new_tokens_arg \in {MaxNewTokens, MaxNewTokens + 3}
    /\ num_hidden_layers = L
    /\ max_position_embeddings = 2 * MaxPosEmb
    /\ hidden_states_may_be_missing = FALSE
    /\ num_sessions = 1
    /\ SessionStart

DegenerateSpec == DegenerateInit /\ [][GreedyNext]_vars

\* ------------------------------------------------- missing hidden states
\* every forward pass that is asked for hidden states may return none
AnchorInit ==
    /\ inputs = <<1>>
    /\ args \in ArgsSpace
    /\ logits_processor \in BOOLEAN
    /\ max_steps \in StepChoices
    /\ max_new_tokens_arg = MaxNewTokens
    /\ num_hidden_layers = L
    /\ max_position_embeddings = MaxPosEmb
    /\ hidden_states_may_be_missing = TRUE
    /\ num_sessions = 1
    /\ SessionStart

AnchorSpec == AnchorInit /\ [][Next]_vars

\* ------------------------------------------------------------ properties
\* a step has begun and has not yet committed
InStep == pc \in {"optim", "draft", "pld", "verify", "accept", "accepted", "commit"}

\* the last step is over: it committed (the loop test or the return follows)
\* or an exception left clasp_forward
StepEnded == total_steps > 0 /\ pc \in {"loop", "done", "failed"}

\* the tokens the last committed step appended
LastStepTokens ==
    IF accept_length_list = <<>> THEN <<>>
    ELSE LastN(input_ids_list, accept_length_list[Len(accept_length_list)])

RECURSIVE SumSeq(_)
SumSeq(s) == IF s = <<>> THEN 0 ELSE s[1] + SumSeq(Tail(s))

\* draft token j (1-based) was compared and differs from the verifier's selection
MismatchAt(j) ==
    j <= Len(verify_tokens) /\ j <= num_drafted /\ verify_tokens[j] # draft_tokens[j]

HasMismatch == \E j \in 1 .. num_drafted : MismatchAt(j)

FirstMismatch ==
    CHOOSE j \in 1 .. num_drafted : MismatchAt(j) /\ \A i \in 1 .. (j - 1) : ~MismatchAt(i)

\* every drafted token was compared and equals the verifier's selection
AllMatched ==
    /\ Len(verify_tokens) = num_drafted
    /\ \A j \in 1 .. num_drafted : verify_tokens[j] = draft_tokens[j]

\* C1: in every step 0 <= accepted_len <= num_drafted, and when the step is
\* over the committed sequence has grown by exactly accepted_len + 1 tokens:
\* the accepted draft prefix followed by the final token.
C1_StepCommitsAcceptedPlusOne ==
    /\ 0 <= accepted_len /\ accepted_len <= num_drafted
    /\ StepEnded =>
          /\ Len(input_ids_list) = Len(seq_before_step) + accepted_len + 1
          /\ input_ids_list =
                seq_before_step \o Take(draft_tokens, accepted_len) \o <<final_next_token>>

\* C2: in greedy mode every generated token equals F applied to the
\* committed tokens before it: the committed sequence is a prefix of plain
\* one-token-at-a-time decoding with the full model.
C2_Lossless ==
    ~logits_processor =>
        \A i \in (Len(inputs) + 1) .. Len(input_ids_list) :
            LET pre == SubSeq(input_ids_list, 1, i - 1)
            IN pre \in DOMAIN fullModel /\ input_ids_list[i] = fullModel[pre]

C2_Witness ==
    /\ ~logits_processor
    /\ StepEnded /\ pc # "failed"
    /\ total_steps = 2
    /\ num_pld > 0
    /\ accepted_len >= 1

\* C3: at the start of every step, and until the verify pass, the canonical
\* cache's logical length is the committed sequence length minus one; the
\* commit sets it to (length read before the verify pass) + accepted_len + 1;
\* the desync warning is never logged.
C3_CacheLength ==
    /\ ~desync_warning
    /\ pc \in {"loop", "optim", "draft", "pld", "verify"} =>
          current_length_data = Len(input_ids_list) - 1
    /\ (StepEnded /\ pc # "failed") =>
          current_length_data = current_seq_len + accepted_len + 1

C3_Witness ==
    /\ pc = "verify"
    /\ total_steps = 2
    /\ Len(past_key_values_data) > current_length_data

\* C4: if draft token k is the first that differs from the verifier's
\* selection for row k, the step ends with accepted_len = k, commits draft
\* tokens 0..k-1 and then the verifier's token of row k, not draft token k.
C4_Mismatch ==
    (StepEnded /\ HasMismatch) =>
        LET j == FirstMismatch
        IN /\ accepted_len = j - 1
           /\ final_next_token = verify_tokens[j]
           /\ final_next_token # draft_tokens[j]
           /\ input_ids_list =
                 seq_before_step \o Take(draft_tokens, j - 1) \o <<verify_tokens[j]>>
           /\ \A i \in 1 .. j : verify_rows[i] = i - 1
           /\ ~logits_processor =>
                 \A i \in 1 .. j :
                     LET ctx == seq_before_step \o Take(draft_tokens, i - 1)
                     IN ctx \in DOMAIN fullModel /\ verify_tokens[i] = fullModel[ctx]

C4_Witness ==
    /\ StepEnded
    /\ HasMismatch
    /\ FirstMismatch = 2
    /\ logits_processor

\* C5: if every drafted token equals the verifier's selection for its row
\* (also when nothing was drafted), accepted_len = num_drafted and the step
\* commits all drafted tokens followed by a bonus token selected from row
\* num_drafted, the last verification row.
C5_FullAcceptance ==
    (StepEnded /\ AllMatched) =>
        /\ accepted_len = num_drafted
        /\ final_next_token \in Tok
        /\ input_ids_list = seq_before_step \o draft_tokens \o <<final_next_token>>
        /\ Len(verify_rows) = num_drafted + 1
        /\ verify_rows[num_drafted + 1] = num_drafted

\* C6: a step runs only if, when it began, generated_token_count <
\* max_new_tokens, total_steps < max_steps and the previous step committed
\* no end-of-sequence token; the loop is done only when one of these fails.
C6_LoopGuard ==
    /\ InStep =>
          /\ generated_token_count < max_new_tokens
          /\ total_steps - 1 < max_steps
          /\ eos_token_id \notin Elems(LastStepTokens)
    /\ pc = "loop" => eos_token_id \notin Elems(LastStepTokens)
    /\ pc = "done" =>
          \/ generated_token_count >= max_new_tokens
          \/ total_steps >= max_steps
          \/ eos_token_id \in Elems(LastStepTokens)

C6_Witness ==
    /\ pc = "done"
    /\ generated_token_count >= max_new_tokens
    /\ total_steps >= 1
    /\ total_steps < max_steps
    /\ eos_token_id \notin Elems(input_ids_list)

\* C7: every session reaches DONE: a session that is not done can always
\* take its next step (each step increases total_steps), and the number of
\* steps never exceeds max_steps.
C7_Terminates ==
    /\ pc = "done" \/ ENABLED Next
    /\ total_steps <= max_steps

\* C8: no step ends in an unhandled failure, in greedy and in sampling mode,
\* for every K and both outcomes of acceptance: every step that has left
\* acceptance has a final token and commits it.
C8_NoUnhandledFailure ==
    /\ failure = "none"
    /\ pc # "failed"
    /\ pc = "commit" => final_next_token \in Tok

\* C9: with draft_length_K = 0 every step has an empty draft batch and
\* commits exactly one token, so the number of steps is the number of
\* tokens generated after the prefill token.
C9_KZeroOneTokenPerStep ==
    args.draft_length_K = 0 =>
        /\ num_drafted = 0
        /\ \A i \in 1 .. Len(accept_length_list) : accept_length_list[i] = 1
        /\ StepEnded => Len(input_ids_list) = Len(seq_before_step) + 1
        /\ pc \in {"loop", "done"} => total_steps = generated_token_count - 1

\* C10 as stated: the lookahead extension runs only when horizontal cascade
\* is enabled and the draft loop ended naturally (all K iterations), never
\* after a confidence, end-of-sequence or budget exit.
C10_LookaheadOnlyAfterNaturalEnd ==
    /\ num_pld > 0 => pld_called
    /\ pld_called => (args.hc /\ draft_exit = "natural")

\* C10 amended: the lookahead extension runs only when horizontal cascade is
\* enabled and the draft loop ended naturally or at the confidence check;
\* never when the loop stopped at the end-of-sequence or the budget check.
C10_LookaheadNotAfterEosOrBudget ==
    /\ num_pld > 0 => pld_called
    /\ pld_called => (args.hc /\ draft_exit \in {"natural", "confidence"})
    /\ draft_exit \in {"eos", "budget"} => (~pld_called /\ num_pld = 0)

C10_Witness ==
    /\ pld_called
    /\ num_pld > 0
    /\ draft_exit = "confidence"

\* C11: right after an optimisation call the mask has round(L * skip_ratio)
\* true entries, the number of layers the optimiser was asked to skip, for
\* every layer count and every skip ratio.
C11_MaskCountIsRound ==
    (pc = "draft" /\ ~current_draft_skip_mask.isNone) =>
        /\ Cardinality(current_draft_skip_mask.skipped) = M(args)
        /\ M(args) = PyRound(num_hidden_layers * args.skip_ratio, 100)

\* C12: the mask changes only at an optimisation call: in every phase of
\* every step the current mask is the one the last optimisation call
\* returned, and every draft forward runs under that mask.
C12_MaskChangesOnlyAtOptimization ==
    /\ current_draft_skip_mask = last_optim_mask
    /\ draft_step_idx > 0 => draft_mask = last_optim_mask

C12_Witness ==
    /\ total_steps = 2
    /\ steps_since_last_optim = 1
    /\ pc = "pld"
    /\ draft_step_idx > 0
    /\ ~draft_mask.isNone

\* C13: at the start of a step the optimiser runs exactly when there is no
\* mask or the number of tokens committed since the last optimisation call
\* is at least opt_interval; the counter compared with opt_interval is that
\* number of tokens.
C13_OptimizerRunsOnAcceptedTokens ==
    pc = "optim" =>
        (RunsOptimizer <=>
            (current_draft_skip_mask.isNone
                \/ tokens_since_last_optim >= args.opt_interval))

\* C14: in greedy mode a second call with the same input and configuration,
\* made in the same process after the first, returns the token sequence the
\* first call returned.
C14_SameOutputAcrossRuns ==
    (~logits_processor /\ session = 2 /\ pc = "done") =>
        input_ids_list = first_output

\* C17: the mask and the counter belong to the session: the first step of
\* a call runs the optimiser, as the first call of a process does, and every
\* mask a call drafts under was computed in that call.
C17_SessionOwnsMask ==
    /\ (pc = "draft" /\ total_steps = 1 /\ last_token_hidden_states) =>
          (mask_session = session /\ steps_since_last_optim = 0)
    /\ draft_step_idx > 0 => (draft_mask = current_draft_skip_mask /\ mask_session = session)

\* C15 as stated: in the degenerate scenario every step that is followed by
\* another step drafted four tokens and accepted all four (stated here for
\* the sessions in which no end-of-sequence token was generated).
C15_FullDraftEveryNonFinalStep ==
    (pc = "loop" /\ total_steps > 0 /\ LoopCondition
        /\ eos_token_id \notin Elems(input_ids_list)) =>
        (num_drafted = 4 /\ accepted_len = 4)

\* C15 amended: in the degenerate scenario every step accepts every token
\* the draft forward produced (all of the draft batch when lookahead is
\* off) and commits them with one more token; the draft forward produced
\* four tokens exactly when the loop was not stopped by the end-of-sequence
\* or the budget exit, and the confidence exit is never taken.
C15_EveryModelDraftAccepted ==
    /\ draft_exit # "confidence"
    /\ draft_exit = "natural" => draft_step_idx = 4
    /\ draft_exit \in {"eos", "budget"} => draft_step_idx <= 4
    /\ StepEnded =>
          /\ accepted_len >= num_drafted - num_pld
          /\ num_drafted - num_pld = draft_step_idx
          /\ ~args.hc => accepted_len = num_drafted
          /\ Len(input_ids_list) = Len(seq_before_step) + accepted_len + 1

C15_Witness ==
    /\ pc = "loop"
    /\ total_steps = 1
    /\ LoopCondition
    /\ num_drafted = 4
    /\ accepted_len = 4

\* C16: from the start of a step until the verify pass the canonical cache's
\* storage and logical length are what they were when the step began,
\* whatever the optimiser and the draft forwards wrote to their forks; the
\* draft fork starts as a copy of the canonical cache, also when the
\* optimiser ran first; after the verify pass only the commit changes the
\* canonical cache, and only its logical length.
C16_ForkIsolation ==
    /\ pc \in {"optim", "draft", "pld", "verify"} =>
          <<past_key_values_data, current_length_data>> = canonical_snapshot
    /\ (pc = "draft" /\ draft_step_idx = 0) =>
          <<draft_past_key_values_data, draft_current_length_data>> = canonical_snapshot
    /\ pc \in {"accept", "accepted", "commit", "failed"} =>
          <<past_key_values_data, current_length_data>> = canonical_snapshot
    /\ (StepEnded /\ pc # "failed") =>
          past_key_values_data = canonical_snapshot[1]

C16_Witness ==
    /\ pc = "pld"
    /\ total_steps = 2
    /\ opt_current_length_data > current_length_data
    /\ draft_current_length_data > current_length_data
    /\ draft_past_key_values_data # past_key_values_data
    /\ Len(draft_past_key_values_data) = Len(past_key_values_data)

\* C18: after each drafted token the exits are tested in the order
\* confidence, end-of-sequence, budget, and the loop stops at the first that
\* holds; the end-of-sequence and the budget exit forbid the lookahead
\* extension, the confidence exit does not, even when the token is the
\* end-of-sequence token or exhausts the budget.
C18_ExitOrder ==
    (pc \in {"draft", "pld"} /\ draft_step_idx > 0 /\ draft_exit # "natural") =>
        LET next_token == draft_tokens[Len(draft_tokens)]
            confidence == top1_prob < args.draft_exit_threshold
            eos == next_token = eos_token_id
            budget == Len(draft_tokens) + generated_token_count
                          >= max_new_tokens - BudgetMargin
        IN /\ draft_exit = "confidence" <=> confidence
           /\ draft_exit = "eos" <=> (~confidence /\ eos)
           /\ draft_exit = "budget" <=> (~confidence /\ ~eos /\ budget)
           /\ draft_exit = "none" <=> (~confidence /\ ~eos /\ ~budget)
           /\ pc = "draft" <=> draft_exit = "none"
           /\ continue_hc <=> draft_exit \in {"confidence", "none"}

C18_Witness ==
    /\ pld_called
    /\ draft_exit = "confidence"
    /\ draft_step_idx > 0
    /\ draft_tokens[draft_step_idx] = eos_token_id
    /\ draft_step_idx + generated_token_count >= max_new_tokens - BudgetMargin

\* C19: a step that begins with no hidden-state anchor does not run the
\* optimiser, drafts under the mask it found (or under none), and drafts,
\* verifies and commits as every step does: accepted_len + 1 tokens, the
\* cache length set back to the sequence length minus one.
C19_MissingAnchorStepCommits ==
    /\ (pc = "optim" /\ ~last_token_hidden_states) => ~RunsOptimizer
    /\ (InStep /\ pc # "optim" /\ ~step_had_anchor) =>
          /\ current_draft_skip_mask = last_optim_mask
          /\ current_draft_skip_mask.isNone \/ steps_since_last_optim >= 1
          /\ draft_step_idx > 0 => draft_mask = current_draft_skip_mask
    /\ (StepEnded /\ ~step_had_anchor) =>
          /\ pc # "failed"
          /\ Len(input_ids_list) = Len(seq_before_step) + accepted_len + 1
          /\ current_length_data = Len(input_ids_list) - 1

\* C20: the committed sequence only grows: the prompt, and the sequence as
\* it was when the step began, are prefixes of the sequence; a step that
\* stopped at a mismatch appends nothing of the draft batch from the
\* mismatching token on.
C20_SequenceOnlyGrows ==
    /\ IsPrefix(inputs, input_ids_list)
    /\ IsPrefix(seq_before_step, input_ids_list)
    /\ pc # "prefill" => Len(input_ids_list) > Len(inputs)
    /\ (StepEnded /\ pc # "failed") => Len(input_ids_list) > Len(seq_before_step)
    /\ (StepEnded /\ pc # "failed" /\ HasMismatch) =>
          /\ Len(input_ids_list) = Len(seq_before_step) + FirstMismatch
          /\ input_ids_list[Len(input_ids_list)] # draft_tokens[FirstMismatch]

C20_Witness ==
    /\ StepEnded
    /\ pc # "failed"
    /\ HasMismatch
    /\ num_drafted - accepted_len >= 2

\* C21: after every commit each cache entry below the logical length was
\* computed from the committed sequence's token at that position; the
\* entries the verify pass wrote for rejected draft tokens lie at or beyond
\* the logical length; the verify pass writes from the logical length on,
\* the last committed token first, then the draft batch.
C21_CacheContentAfterRollback ==
    /\ (pc \in {"loop", "done", "optim", "draft", "pld", "verify"}) =>
          /\ current_length_data = Len(input_ids_list) - 1
          /\ Len(past_key_values_data) >= current_length_data
          /\ \A p \in 1 .. current_length_data :
                past_key_values_data[p] = input_ids_list[p]
    /\ (pc \in {"accept", "accepted", "commit"}) =>
          /\ current_seq_len = Len(input_ids_list) - 1
          /\ \A p \in 1 .. current_seq_len :
                past_key_values_data[p] = input_ids_list[p]
          /\ past_key_values_data[current_seq_len + 1]
                = input_ids_list[Len(input_ids_list)]
          /\ \A j \in 1 .. num_drafted :
                past_key_values_data[current_seq_len + 1 + j] = draft_tokens[j]
    /\ (StepEnded /\ pc # "failed") =>
          \A j \in (accepted_len + 1) .. num_drafted :
              current_seq_len + 1 + j > current_length_data

C21_Witness ==
    /\ pc = "loop"
    /\ StepEnded
    /\ HasMismatch
    /\ Len(past_key_values_data) > current_length_data
    /\ past_key_values_data[current_length_data + 1]
          # input_ids_list[current_length_data + 1]

\* C22: the number of generated tokens (the prefill token and every token a
\* step committed) never exceeds the effective max_new_tokens, in every
\* state after the budget clamp and in the value clasp_forward returns.
C22_TokenBudget ==
    pc # "prefill" => generated_token_count <= max_new_tokens

\* C23: once an end-of-sequence token has been generated, by the prefill or
\* by a step, no further step executes: a step never begins on a sequence
\* whose generated part holds the end-of-sequence token.
C23_NoStepAfterEos ==
    InStep =>
        eos_token_id \notin
            Elems(SubSeq(seq_before_step, Len(inputs) + 1, Len(seq_before_step)))

\* C24: at every step boundary and at return the committed sequence is as
\* long as the prompt plus generated_token_count, accept_length_list has one
\* entry per step, each at least 1, and the entries add up to
\* generated_token_count minus the prefill token.
C24_Accounting ==
    pc \in {"loop", "done"} =>
        /\ Len(input_ids_list) = Len(inputs) + generated_token_count
        /\ Len(accept_length_list) = total_steps
        /\ \A i \in 1 .. Len(accept_length_list) : accept_length_list[i] >= 1
        /\ SumSeq(accept_length_list) = generated_token_count - 1

C24_Witness ==
    /\ pc = "done"
    /\ total_steps = 2
    /\ accept_length_list[1] >= 2
    /\ accept_length_list[2] = 1
====
